---- MODULE Spec2Model ----
(***************************************************************************)
(* OfferCompare: the in-memory store (server/storage.ts, MemStorage), the  *)
(* HTTP handlers that drive it (server/routes.ts) and the two client forms *)
(* that build offer payloads (CreateOffer, CounterOfferForm).              *)
(*                                                                         *)
(* Conventions.                                                            *)
(*  - A JavaScript value that may be undefined/null is an option: None is  *)
(*    <<>> and Some(v) is <<v>>.  Truthy(x) is JavaScript truthiness of    *)
(*    an optional number (undefined, null and 0 are falsy).                *)
(*  - Money is in whole dollars.  The prices of the model are multiples of *)
(*    100, so price * c / 100 and 0.06 * price are whole numbers and the   *)
(*    integer arithmetic below is the arithmetic of the code.              *)
(*  - A Map keeps insertion order; ids are handed out ascending, so the    *)
(*    iteration order of a Map is ascending id.                            *)
(*  - NaN (Math.round of an expression with an undefined operand) is the   *)
(*    option None in overallScore.                                         *)
(***************************************************************************)
EXTENDS Integers, Sequences, FiniteSets, TLC

VARIABLES
    listingsData,           \* Map<number, Listing>
    offersData,             \* Map<number, Offer>
    listingPrioritiesData,  \* Map<number, ListingPriorities>
    usageEventsData,        \* Map<number, UsageEvent>
    currentListingId,
    currentOfferId,
    currentPriorityId,
    currentUsageEventId,
    req,                    \* the request being answered (operation, caller, target)
    res,                    \* the response sent for it
    stripeObjects,          \* Stripe: the payment intents and usage records created
    awaiting                \* the billing requests that await an answer of Stripe

store == <<listingsData, offersData, listingPrioritiesData, usageEventsData,
           currentListingId, currentOfferId, currentPriorityId, currentUsageEventId>>
vars == <<listingsData, offersData, listingPrioritiesData, usageEventsData,
          currentListingId, currentOfferId, currentPriorityId, currentUsageEventId,
          req, res, stripeObjects, awaiting>>
stripe == <<stripeObjects, awaiting>>

-----------------------------------------------------------------------------
(* Bounds of the model *)

MaxListings == 2
MaxOffers == 3
MaxApiOffers == 2
MaxCalcOffers == 2
MaxContingencies == 6
MaxHistOffers == 3
MaxRouteOffers == 2
MaxInsightOffers == 3
MaxExtractOffers == 3
MaxExtractEvents == 4
MaxPriorities == 3
MaxNormOffers == 1
MaxOrderOffers == 2
MaxBillingEvents == 2
MaxAwaiting == 2
MaxFrameOffers == 2
MaxRouteEvents == 2

-----------------------------------------------------------------------------
(* Optional values and object spread *)

None == <<>>
Some(v) == <<v>>
Val(x) == x[1]
Truthy(x) == x # None /\ x # Some(0)

\* { ...a, ...b }
Spread(a, b) ==
    [k \in (DOMAIN a) \cup (DOMAIN b) |-> IF k \in DOMAIN b THEN b[k] ELSE a[k]]

\* map.set(id, value)
MapSet(map, id, value) ==
    [k \in (DOMAIN map) \cup {id} |-> IF k = id THEN value ELSE map[k]]

EmptyMap == [k \in {} |-> None]

-----------------------------------------------------------------------------
(* Inputs *)

Users == {1, 2}
Callers == {None} \cup {Some(u) : u \in Users}

Labels == <<"financing", "inspection", "appraisal", "home sale", "title", "survey",
            "insurance">>

\* The list of the first k labels, cycling through Labels (so lists longer than
\* Labels repeat a label, as a request body may).
LabelList(k) == [i \in 1..k |-> Labels[((i - 1) % Len(Labels)) + 1]]

-----------------------------------------------------------------------------
(* server/routes.ts, POST /api/offers: the commission heuristic and the net *)
(* proceeds the route computes                                              *)

\* let agentCommission = Number(validatedData.agentCommission || 0);
\* if (agentCommission > 0 && agentCommission <= 20) agentCommission = price * agentCommission / 100
RouteCommission(price, agentCommission) ==
    LET c == IF Truthy(agentCommission) THEN Val(agentCommission) ELSE 0
    IN  IF c > 0 /\ c <= 20 THEN (price * c) \div 100 ELSE c

\* Number(listing.loanBalance || 0)
LoanBalance(listing) ==
    IF Truthy(listing.loanBalance) THEN Val(listing.loanBalance) ELSE 0

\* netProceeds: price - loanBalance - agentCommission
RouteNetProceeds(price, listing, agentCommission) ==
    price - LoanBalance(listing) - RouteCommission(price, agentCommission)

\* insertOfferSchema.parse(req.body): price is required, the other numeric
\* fields are optional
ValidOfferBody(body) == body.price # None

ValidatedData(body) == [body EXCEPT !.price = Val(body.price)]

-----------------------------------------------------------------------------
(* server/storage.ts, MemStorage.createOffer *)

\* createOffer without the 6% default: a missing commission costs nothing
StorageCommissionNoDefault(price, agentCommission) ==
    IF Truthy(agentCommission) THEN Val(agentCommission) ELSE 0

\* offer.agentCommission ? Number(offer.agentCommission) : 0.06 * price
StorageCommission(price, agentCommission) ==
    IF Truthy(agentCommission) THEN Val(agentCommission) ELSE (6 * price) \div 100

\* const netProceeds = price - commission
StorageNetProceeds(price, agentCommission) ==
    price - StorageCommission(price, agentCommission)

\* offer.contingencies || []
ContingenciesOrEmpty(contingencies) ==
    IF contingencies = None THEN <<>> ELSE Val(contingencies)

\* the risk score without the floor of Math.max(1, ...)
RiskScoreNoFloor(contingencies) == 10 - Len(contingencies) * 2

\* Math.max(1, 10 - contingencies.length * 2)
RiskScore(contingencies) ==
    LET s == 10 - Len(contingencies) * 2
    IN  IF s > 1 THEN s ELSE 1

\* the overall score clamped to 0..100
OverallScoreClamped(price, riskScore, closingTimelineDays) ==
    IF closingTimelineDays = None
    THEN None
    ELSE LET s == (2 * price + 50000 * (5 * riskScore + 60)
                   - 25000 * Val(closingTimelineDays) + 25000) \div 50000
         IN  Some(IF s > 100 THEN 100 ELSE IF s < 0 THEN 0 ELSE s)

\* Math.round(price / 1000000 * 40 + riskScore * 5 + (60 - closingTimelineDays / 2)).
\* The argument is (2*price + 50000*(5*riskScore + 60) - 25000*days) / 50000 and
\* Math.round(x) is floor(x + 1/2); an undefined closingTimelineDays makes it NaN.
OverallScore(price, riskScore, closingTimelineDays) ==
    IF closingTimelineDays = None
    THEN None
    ELSE Some((2 * price + 50000 * (5 * riskScore + 60)
               - 25000 * Val(closingTimelineDays) + 25000) \div 50000)

\* const newOffer = { ...offer, id, userId, netProceeds, riskScore, overallScore,
\*                    createdAt, contingencies: offer.contingencies || [] }
NewOffer(offer, id, userId) ==
    LET contingencies == ContingenciesOrEmpty(offer.contingencies)
        riskScore == RiskScore(contingencies)
    IN  Spread(offer,
               [id |-> id,
                userId |-> userId,
                netProceeds |-> StorageNetProceeds(offer.price, offer.agentCommission),
                riskScore |-> riskScore,
                overallScore |-> OverallScore(offer.price, riskScore, offer.closingTimelineDays),
                contingencies |-> contingencies])

-----------------------------------------------------------------------------
(* server/storage.ts, MemStorage.getOfferHistory *)

\* Array.from(map.values()): the ids of a Map in insertion (ascending) order
RECURSIVE IdsUpTo(_, _)
IdsUpTo(map, n) ==
    IF n = 0 THEN <<>>
    ELSE IF n \in DOMAIN map THEN Append(IdsUpTo(map, n - 1), n)
    ELSE IdsUpTo(map, n - 1)

MaxId(map) ==
    IF DOMAIN map = {} THEN 0 ELSE CHOOSE n \in DOMAIN map : \A m \in DOMAIN map : m <= n

MapIds(map) == IdsUpTo(map, MaxId(map))

\* .filter(o => o.parentOfferId === rootOfferId || o.id === rootOfferId)
RECURSIVE FilterVersions(_, _, _)
FilterVersions(offers, ids, rootOfferId) ==
    IF ids = <<>> THEN <<>>
    ELSE IF \/ offers[Head(ids)].parentOfferId = Some(rootOfferId)
            \/ Head(ids) = rootOfferId
    THEN <<Head(ids)>> \o FilterVersions(offers, Tail(ids), rootOfferId)
    ELSE FilterVersions(offers, Tail(ids), rootOfferId)

\* a.versionNumber || 1
SortKey(offer) == IF Truthy(offer.versionNumber) THEN Val(offer.versionNumber) ELSE 1

\* insert id into a sequence sorted by key, after every element whose key is not
\* greater (Array.prototype.sort is stable)
RECURSIVE InsertSorted(_, _, _)
InsertSorted(offers, sorted, id) ==
    IF sorted = <<>> THEN <<id>>
    ELSE IF SortKey(offers[Head(sorted)]) <= SortKey(offers[id])
    THEN <<Head(sorted)>> \o InsertSorted(offers, Tail(sorted), id)
    ELSE <<id>> \o sorted

\* getOfferHistory without the sort: the filtered offers in Map order
UnsortedVersions(offers, ids) == ids

RECURSIVE SortByVersion(_, _)
SortByVersion(offers, ids) ==
    IF ids = <<>> THEN <<>>
    ELSE InsertSorted(offers, SortByVersion(offers, SubSeq(ids, 1, Len(ids) - 1)),
                      ids[Len(ids)])

\* The ids of the offers getOfferHistory(offerId) returns, in the order returned.
getOfferHistory(offers, offerId) ==
    IF offerId \notin DOMAIN offers THEN <<>>
    ELSE
      LET offer == offers[offerId]
          rootOfferId == IF Truthy(offer.parentOfferId)
                         THEN Val(offer.parentOfferId) ELSE offer.id
          counterOffers == FilterVersions(offers, MapIds(offers), rootOfferId)
      IN  IF rootOfferId \notin DOMAIN offers THEN <<offerId>>
          ELSE IF counterOffers = <<>> THEN <<offerId>>
          ELSE SortByVersion(offers, counterOffers)

-----------------------------------------------------------------------------
(* The store after construction (MemStorage constructor) *)

NoRequest == [op |-> "none", caller |-> None, listingId |-> None, offerId |-> None]
NoResponse == [status |-> 0, id |-> None, list |-> <<>>, body |-> None]

Init ==
    /\ listingsData = EmptyMap
    /\ offersData = EmptyMap
    /\ listingPrioritiesData = EmptyMap
    /\ usageEventsData = EmptyMap
    /\ currentListingId = 1
    /\ currentOfferId = 1
    /\ currentPriorityId = 1
    /\ currentUsageEventId = 1
    /\ req = NoRequest
    /\ res = NoResponse
    /\ stripeObjects = <<>>
    /\ awaiting = <<>>

\* a request to a route of routes.ts; none of them calls Stripe
Request(op, caller, listingId, offerId) ==
    /\ req' = [op |-> op, caller |-> caller, listingId |-> listingId, offerId |-> offerId]
    /\ UNCHANGED stripe

\* res.status(s).json(...): the status, the id of the record answered, for a
\* list answer the ids in the order answered, and for an answer that is no stored
\* record (insights, extraction) its body
RespondBody(status, id, list, body) ==
    res' = [status |-> status, id |-> id, list |-> list, body |-> body]

Respond(status, id, list) == RespondBody(status, id, list, None)

\* an answer that changes nothing in the store
Reject(status) ==
    /\ Respond(status, None, <<>>)
    /\ UNCHANGED store

OfferCreationAmount == 100      \* amount: 1.00, in cents

\* createUsageEvent storing the event as already processed
NewUsageEventProcessed(event, id) ==
    Spread(event, [id |-> id, processed |-> TRUE,
                   stripeInvoiceId |-> None, stripeUsageRecordId |-> None])

\* storage.createUsageEvent(event)
NewUsageEvent(event, id) ==
    Spread(event, [id |-> id, processed |-> FALSE,
                   stripeInvoiceId |-> None, stripeUsageRecordId |-> None])

\* storage.createListing(listing, userId)
NewListing(listing, id, userId) ==
    Spread(listing, [id |-> id, userId |-> userId, status |-> "active"])

DefaultWeight == 5

DefaultPriorities(listingId) ==
    [listingId |-> listingId, offerPrice |-> DefaultWeight, netProceeds |-> DefaultWeight,
     closingTimeline |-> DefaultWeight, contingencies |-> DefaultWeight,
     buyerQualification |-> DefaultWeight]

\* storage.createListingPriorities(priorities)
NewPriorities(priorities, id) == Spread(priorities, [id |-> id])

-----------------------------------------------------------------------------
(* server/routes.ts handlers *)

\* POST /api/listings
PostListings(caller, body) ==
    /\ Request("POST /api/listings", caller, None, None)
    /\ IF caller = None THEN Reject(401)
       ELSE
         LET id == currentListingId
             pid == currentPriorityId
         IN  /\ listingsData' = MapSet(listingsData, id, NewListing(body, id, Val(caller)))
             /\ currentListingId' = id + 1
             /\ listingPrioritiesData' =
                    MapSet(listingPrioritiesData, pid, NewPriorities(DefaultPriorities(id), pid))
             /\ currentPriorityId' = pid + 1
             /\ Respond(201, Some(id), <<>>)
             /\ UNCHANGED <<offersData, usageEventsData, currentOfferId, currentUsageEventId>>

\* PATCH /api/listings/:id that also writes the net proceeds of the listing's
\* offers anew from the patched listing
PatchListingRecomputing(caller, id, body) ==
    /\ Request("PATCH /api/listings/:id", caller, Some(id), None)
    /\ IF caller = None THEN Reject(401)
       ELSE IF id \notin DOMAIN listingsData THEN Reject(404)
       ELSE IF listingsData[id].userId # Val(caller) THEN Reject(403)
       ELSE /\ listingsData' = MapSet(listingsData, id, Spread(listingsData[id], body))
            /\ offersData' =
                  [o \in DOMAIN offersData |->
                      IF offersData[o].listingId = id
                      THEN [offersData[o] EXCEPT !.netProceeds =
                               RouteNetProceeds(offersData[o].price,
                                                Spread(listingsData[id], body),
                                                offersData[o].agentCommission)]
                      ELSE offersData[o]]
            /\ Respond(200, Some(id), <<>>)
            /\ UNCHANGED <<listingPrioritiesData, usageEventsData,
                           currentListingId, currentOfferId, currentPriorityId,
                           currentUsageEventId>>

\* PATCH /api/listings/:id with storage.updateListing(id, req.body)
PatchListing(caller, id, body) ==
    /\ Request("PATCH /api/listings/:id", caller, Some(id), None)
    /\ IF caller = None THEN Reject(401)
       ELSE IF id \notin DOMAIN listingsData THEN Reject(404)
       ELSE IF listingsData[id].userId # Val(caller) THEN Reject(403)
       ELSE /\ listingsData' = MapSet(listingsData, id, Spread(listingsData[id], body))
            /\ Respond(200, Some(id), <<>>)
            /\ UNCHANGED <<offersData, listingPrioritiesData, usageEventsData,
                           currentListingId, currentOfferId, currentPriorityId,
                           currentUsageEventId>>

\* POST /api/offers; op names the sender of the request
PostOffers(op, caller, body) ==
    /\ Request(op, caller, Some(body.listingId), None)
    /\ IF caller = None THEN Reject(401)
       ELSE IF ~ValidOfferBody(body) THEN Reject(400)
       ELSE IF body.listingId \notin DOMAIN listingsData THEN Reject(404)
       ELSE IF listingsData[body.listingId].userId # Val(caller) THEN Reject(403)
       ELSE
         LET validatedData == ValidatedData(body)
             listing == listingsData[validatedData.listingId]
             offerWithNetProceeds ==
                 Spread(validatedData,
                        [netProceeds |-> RouteNetProceeds(validatedData.price, listing,
                                                          validatedData.agentCommission)])
             id == currentOfferId
             eid == currentUsageEventId
         IN  /\ offersData' = MapSet(offersData, id,
                                     NewOffer(offerWithNetProceeds, id, Val(caller)))
             /\ currentOfferId' = id + 1
             /\ usageEventsData' =
                    MapSet(usageEventsData, eid,
                           NewUsageEvent([userId |-> Val(caller),
                                          eventType |-> "offer_creation",
                                          amount |-> OfferCreationAmount], eid))
             /\ currentUsageEventId' = eid + 1
             /\ Respond(201, Some(id), <<>>)
             /\ UNCHANGED <<listingsData, listingPrioritiesData,
                            currentListingId, currentPriorityId>>

\* GET /api/offers/:id/history
GetOfferHistory(caller, offerId) ==
    /\ Request("GET /api/offers/:id/history", caller, None, Some(offerId))
    /\ IF caller = None THEN Reject(401)
       ELSE IF offerId \notin DOMAIN offersData THEN Reject(404)
       ELSE IF \/ offersData[offerId].listingId \notin DOMAIN listingsData
               \/ listingsData[offersData[offerId].listingId].userId # Val(caller)
       THEN Reject(403)
       ELSE /\ Respond(200, Some(offerId), getOfferHistory(offersData, offerId))
            /\ UNCHANGED store

\* POST /api/offers when storage.createUsageEvent rejects (IStorage is an
\* asynchronous interface): the offer is already stored, the catch answers 500
PostOffersUsageEventFails(op, caller, body) ==
    /\ Request(op, caller, Some(body.listingId), None)
    /\ caller # None
    /\ ValidOfferBody(body)
    /\ body.listingId \in DOMAIN listingsData
    /\ listingsData[body.listingId].userId = Val(caller)
    /\ LET validatedData == ValidatedData(body)
           listing == listingsData[validatedData.listingId]
           offerWithNetProceeds ==
               Spread(validatedData,
                      [netProceeds |-> RouteNetProceeds(validatedData.price, listing,
                                                        validatedData.agentCommission)])
           id == currentOfferId
       IN  /\ offersData' = MapSet(offersData, id,
                                   NewOffer(offerWithNetProceeds, id, Val(caller)))
           /\ currentOfferId' = id + 1
           /\ Respond(500, None, <<>>)
           /\ UNCHANGED <<listingsData, listingPrioritiesData, usageEventsData,
                          currentListingId, currentPriorityId, currentUsageEventId>>

\* POST /api/offers is awaiting storage.createUsageEvent: the offer is stored
\* and nothing is answered yet
AwaitingUsageEvent ==
    /\ req.op \in {"CreateOffer", "CounterOfferForm", "api"}
    /\ res.status = 0
    /\ res.id # None

\* the first steps in the other order: the usage event is recorded, the offer
\* is not stored yet
PostOffersUsageEventFirst(op, caller, body) ==
    /\ Request(op, caller, Some(body.listingId), None)
    /\ IF caller = None THEN Reject(401)
       ELSE IF ~ValidOfferBody(body) THEN Reject(400)
       ELSE IF body.listingId \notin DOMAIN listingsData THEN Reject(404)
       ELSE IF listingsData[body.listingId].userId # Val(caller) THEN Reject(403)
       ELSE
         LET eid == currentUsageEventId
         IN  /\ usageEventsData' =
                    MapSet(usageEventsData, eid,
                           NewUsageEvent([userId |-> Val(caller),
                                          eventType |-> "offer_creation",
                                          amount |-> OfferCreationAmount], eid))
             /\ currentUsageEventId' = eid + 1
             /\ Respond(0, Some(currentOfferId), <<>>)
             /\ UNCHANGED <<listingsData, offersData, listingPrioritiesData,
                            currentListingId, currentOfferId, currentPriorityId>>

\* POST /api/offers up to the return of storage.createOffer (routes.ts:128-164):
\* the request is refused, or the offer is stored and the handler goes on to
\* record the usage event
PostOffersCreateOffer(op, caller, body) ==
    /\ Request(op, caller, Some(body.listingId), None)
    /\ IF caller = None THEN Reject(401)
       ELSE IF ~ValidOfferBody(body) THEN Reject(400)
       ELSE IF body.listingId \notin DOMAIN listingsData THEN Reject(404)
       ELSE IF listingsData[body.listingId].userId # Val(caller) THEN Reject(403)
       ELSE
         LET validatedData == ValidatedData(body)
             listing == listingsData[validatedData.listingId]
             offerWithNetProceeds ==
                 Spread(validatedData,
                        [netProceeds |-> RouteNetProceeds(validatedData.price, listing,
                                                          validatedData.agentCommission)])
             id == currentOfferId
         IN  /\ offersData' = MapSet(offersData, id,
                                     NewOffer(offerWithNetProceeds, id, Val(caller)))
             /\ currentOfferId' = id + 1
             /\ Respond(0, Some(id), <<>>)
             /\ UNCHANGED <<listingsData, listingPrioritiesData, usageEventsData,
                            currentListingId, currentPriorityId, currentUsageEventId>>

\* POST /api/offers from storage.createUsageEvent to the answer (routes.ts:166-173)
PostOffersCreateUsageEvent ==
    /\ AwaitingUsageEvent
    /\ LET eid == currentUsageEventId
       IN  /\ usageEventsData' =
                  MapSet(usageEventsData, eid,
                         NewUsageEvent([userId |-> Val(req.caller),
                                        eventType |-> "offer_creation",
                                        amount |-> OfferCreationAmount], eid))
           /\ currentUsageEventId' = eid + 1
           /\ Respond(201, res.id, <<>>)
           /\ UNCHANGED <<req, stripe, listingsData, offersData, listingPrioritiesData,
                          currentListingId, currentOfferId, currentPriorityId>>

\* storage.createUsageEvent rejects: the catch answers 500 (routes.ts:174-179)
PostOffersCatch ==
    /\ AwaitingUsageEvent
    /\ Respond(500, None, <<>>)
    /\ UNCHANGED <<req, stripe, store>>

\* the check without the comparison of the owner
ListingMissing(caller, listingId) == listingId \notin DOMAIN listingsData

\* if (!listing || listing.userId !== req.user.id)
NotOwnListing(caller, listingId) ==
    \/ listingId \notin DOMAIN listingsData
    \/ listingsData[listingId].userId # Val(caller)

\* GET /api/listings/:id
GetListing(caller, id) ==
    /\ Request("GET /api/listings/:id", caller, Some(id), None)
    /\ IF caller = None THEN Reject(401)
       ELSE IF id \notin DOMAIN listingsData THEN Reject(404)
       ELSE IF listingsData[id].userId # Val(caller) THEN Reject(403)
       ELSE /\ Respond(200, Some(id), <<>>)
            /\ UNCHANGED store

\* .filter((offer) => offer.listingId === listingId)
RECURSIVE FilterListing(_, _, _)
FilterListing(offers, ids, listingId) ==
    IF ids = <<>> THEN <<>>
    ELSE IF offers[Head(ids)].listingId = listingId
    THEN <<Head(ids)>> \o FilterListing(offers, Tail(ids), listingId)
    ELSE FilterListing(offers, Tail(ids), listingId)

\* storage.getOffers(listingId): the ids of the listing's offers in Map order
getOffers(offers, listingId) == FilterListing(offers, MapIds(offers), listingId)

\* GET /api/listings/:listingId/offers
GetListingOffers(caller, listingId) ==
    /\ Request("GET /api/listings/:listingId/offers", caller, Some(listingId), None)
    /\ IF caller = None THEN Reject(401)
       ELSE IF NotOwnListing(caller, listingId) THEN Reject(403)
       ELSE /\ Respond(200, None, getOffers(offersData, listingId))
            /\ UNCHANGED store

\* GET /api/offers/:id
GetOffer(caller, offerId) ==
    /\ Request("GET /api/offers/:id", caller, None, Some(offerId))
    /\ IF caller = None THEN Reject(401)
       ELSE IF offerId \notin DOMAIN offersData THEN Reject(404)
       ELSE IF NotOwnListing(caller, offersData[offerId].listingId) THEN Reject(403)
       ELSE /\ Respond(200, Some(offerId), <<>>)
            /\ UNCHANGED store

\* storage.getListingPriorities(listingId): Array.from(values()).find(...), the
\* first profile of the listing in Map order, or undefined
getListingPriorities(priorities, listingId) ==
    LET ids == {id \in DOMAIN priorities : priorities[id].listingId = listingId}
    IN  IF ids = {} THEN None
        ELSE Some(CHOOSE id \in ids : \A other \in ids : id <= other)

\* GET /api/listings/:listingId/priorities: the profile, created with the
\* default weights when the listing has none
GetPriorities(caller, listingId) ==
    /\ Request("GET /api/listings/:listingId/priorities", caller, Some(listingId), None)
    /\ IF caller = None THEN Reject(401)
       ELSE IF NotOwnListing(caller, listingId) THEN Reject(403)
       ELSE
         LET priorities == getListingPriorities(listingPrioritiesData, listingId)
             pid == currentPriorityId
         IN  IF priorities # None
             THEN /\ Respond(200, priorities, <<>>)
                  /\ UNCHANGED store
             ELSE /\ listingPrioritiesData' =
                         MapSet(listingPrioritiesData, pid,
                                NewPriorities(DefaultPriorities(listingId), pid))
                  /\ currentPriorityId' = pid + 1
                  /\ Respond(200, Some(pid), <<>>)
                  /\ UNCHANGED <<listingsData, offersData, usageEventsData,
                                 currentListingId, currentOfferId, currentUsageEventId>>

\* insertListingPrioritiesSchema.partial().parse(req.body): every field is
\* optional, a field that is present must be a number (null is refused)
ValidPrioritiesBody(body) == \A k \in DOMAIN body : body[k] # None

ValidatedPriorities(body) == [k \in DOMAIN body |-> Val(body[k])]

\* storage.updateListingPriorities(listingId, priorities): the profiles after it
\* and the id of the profile answered
UpdatedPriorities(priorities, listingId, patch, pid) ==
    LET existingPriorities == getListingPriorities(priorities, listingId)
    IN  IF existingPriorities = None
        THEN [data |-> MapSet(priorities, pid,
                              NewPriorities(Spread(patch, [listingId |-> listingId]), pid)),
              id |-> pid, next |-> pid + 1]
        ELSE [data |-> MapSet(priorities, Val(existingPriorities),
                              Spread(priorities[Val(existingPriorities)], patch)),
              id |-> Val(existingPriorities), next |-> pid]

\* PATCH /api/listings/:listingId/priorities
PatchPriorities(caller, listingId, body) ==
    /\ Request("PATCH /api/listings/:listingId/priorities", caller, Some(listingId), None)
    /\ IF caller = None THEN Reject(401)
       ELSE IF NotOwnListing(caller, listingId) THEN Reject(403)
       ELSE IF ~ValidPrioritiesBody(body) THEN Reject(400)
       ELSE
         LET updated == UpdatedPriorities(listingPrioritiesData, listingId,
                                          ValidatedPriorities(body), currentPriorityId)
         IN  /\ listingPrioritiesData' = updated.data
             /\ currentPriorityId' = updated.next
             /\ Respond(200, Some(updated.id), <<>>)
             /\ UNCHANGED <<listingsData, offersData, usageEventsData,
                            currentListingId, currentOfferId, currentUsageEventId>>

-----------------------------------------------------------------------------
(* server/routes.ts, GET /api/listings/:listingId/insights *)

\* the value an offer is compared by; overallScore may be NaN (None)
Score(offer, field) ==
    IF field = "overallScore" THEN offer.overallScore ELSE Some(offer[field])

\* a > b of JavaScript numbers: false when either is NaN
GreaterThan(a, b) == a # None /\ b # None /\ Val(a) > Val(b)

\* for (const offer of offers) { if (offer.field > best.field) best = offer }
RECURSIVE BestBy(_, _, _, _)
BestBy(offers, ids, field, best) ==
    IF ids = <<>> THEN best
    ELSE BestBy(offers, Tail(ids), field,
                IF GreaterThan(Score(offers[Head(ids)], field), Score(offers[best], field))
                THEN Head(ids) ELSE best)

NoOffersInsights ==
    [recommendation |-> [text |-> "No offers to analyze yet", offer |-> None],
     riskAssessment |-> None,
     netProceedsComparison |-> None,
     negotiationOpportunities |-> None]

\* const insights = {...}: each statement by the offer it names; the net
\* proceeds statement compares with offers[1], the second offer of the listing
Insights(offers, ids) ==
    LET bestOffer == BestBy(offers, ids, "overallScore", ids[1])
        lowestRiskOffer == BestBy(offers, ids, "riskScore", ids[1])
        highestNetProceedsOffer == BestBy(offers, ids, "netProceeds", ids[1])
        difference == offers[highestNetProceedsOffer].netProceeds - offers[ids[2]].netProceeds
    IN  [recommendation |-> [text |-> "strongest overall option", offer |-> Some(bestOffer)],
         riskAssessment |-> Some([offer |-> lowestRiskOffer,
                                  contingencies |-> Len(offers[lowestRiskOffer].contingencies)]),
         netProceedsComparison |->
             Some([offer |-> highestNetProceedsOffer,
                   amount |-> IF difference > 0 THEN difference ELSE 0 - difference,
                   more |-> difference > 0]),
         negotiationOpportunities |-> Some("Consider asking buyers to reduce contingencies")]

\* the handler without the early answer for a listing that has no offers
GetInsightsNoEarlyAnswer(caller, listingId) ==
    /\ Request("GET /api/listings/:listingId/insights", caller, Some(listingId), None)
    /\ IF caller = None THEN Reject(401)
       ELSE IF NotOwnListing(caller, listingId) THEN Reject(403)
       ELSE
         LET offers == getOffers(offersData, listingId)
         IN  IF Len(offers) < 2
             THEN Reject(500)
             ELSE /\ RespondBody(200, None, <<>>, Some(Insights(offersData, offers)))
                  /\ UNCHANGED store

GetInsights(caller, listingId) ==
    /\ Request("GET /api/listings/:listingId/insights", caller, Some(listingId), None)
    /\ IF caller = None THEN Reject(401)
       ELSE IF NotOwnListing(caller, listingId) THEN Reject(403)
       ELSE
         LET offers == getOffers(offersData, listingId)
         IN  IF Len(offers) = 0
             THEN /\ RespondBody(200, None, <<>>, Some(NoOffersInsights))
                  /\ UNCHANGED store
             ELSE IF Len(offers) < 2
             \* offers[1] is undefined: reading its netProceeds throws, the catch
             \* answers 500
             THEN Reject(500)
             ELSE /\ RespondBody(200, None, <<>>, Some(Insights(offersData, offers)))
                  /\ UNCHANGED store

-----------------------------------------------------------------------------
(* server/openai.ts and POST /api/offers/extract.  An extracted offer carries *)
(* its agentCommission in hundredths (0.06 is 6, 2.5 is 250).                 *)

FallbackNotes ==
    "This is fallback data as document extraction failed. Please review document manually."

FallbackPriceMargin == 10000
FallbackCommission == 6         \* agentCommission: 0.06, in hundredths
FallbackTimeline == 30

\* getFallbackOffer(listing)
getFallbackOffer(listing) ==
    [buyerName |-> Some("Extracted Buyer"),
     price |-> Some(Val(listing.price) + FallbackPriceMargin),
     agentCommission |-> Some(FallbackCommission),
     closingTimelineDays |-> Some(FallbackTimeline),
     contingencies |-> Some(<<"financing", "inspection", "appraisal">>),
     notes |-> Some(FallbackNotes)]

\* What the OpenAI call comes to: no API key configured, the request rejects,
\* the answer has no content, or it has content, which is JSON text or not.
NoApiKey == [kind |-> "sk-dummy-key", json |-> None]
RequestFails == [kind |-> "error", json |-> None]
NoContent == [kind |-> "no content", json |-> None]
NotJson == [kind |-> "content", json |-> None]
Json(object) == [kind |-> "content", json |-> Some(object)]

\* extractOfferDetails(documentText, listing): JSON.parse(content) is returned as
\* it is; every failure on the way is caught and answered with the fallback
extractOfferDetails(answer, listing) ==
    IF answer.kind = "content" /\ answer.json # None
    THEN Val(answer.json)
    ELSE getFallbackOffer(listing)

\* Number(extractedData.agentCommission || 0), taken as a percentage of the
\* price when 0 < c <= 20; c is in hundredths
ExtractCommission(price, agentCommission) ==
    LET c == IF Truthy(agentCommission) THEN Val(agentCommission) ELSE 0
    IN  IF c > 0 /\ c <= 2000 THEN (price * c) \div 10000 ELSE c \div 100

\* netProceeds: price - loanBalance - agentCommission, NaN without a price
ExtractNetProceeds(extractedData, listing) ==
    IF extractedData.price = None THEN None
    ELSE Some(Val(extractedData.price) - LoanBalance(listing)
                 - ExtractCommission(Val(extractedData.price), extractedData.agentCommission))

ExtractionAmount == 250         \* amount: 2.50, in cents

\* POST /api/offers/extract; file: a document was uploaded, listingId: None is
\* a listingId that parseInt makes NaN
PostOffersExtract(caller, file, listingId, answer) ==
    /\ Request("POST /api/offers/extract", caller, listingId, None)
    /\ IF caller = None THEN Reject(401)
       ELSE IF ~file THEN Reject(400)
       ELSE IF listingId = None THEN Reject(400)
       ELSE IF NotOwnListing(caller, Val(listingId)) THEN Reject(403)
       ELSE
         LET listing == listingsData[Val(listingId)]
             extractedData == extractOfferDetails(answer, listing)
             extractedDataWithNetProceeds ==
                 Spread(extractedData,
                        [netProceeds |-> ExtractNetProceeds(extractedData, listing)])
             eid == currentUsageEventId
         IN  /\ usageEventsData' =
                    MapSet(usageEventsData, eid,
                           NewUsageEvent([userId |-> Val(caller),
                                          eventType |-> "document_extraction",
                                          amount |-> ExtractionAmount], eid))
             /\ currentUsageEventId' = eid + 1
             /\ RespondBody(200, None, <<>>, Some(extractedDataWithNetProceeds))
             /\ UNCHANGED <<listingsData, offersData, listingPrioritiesData,
                            currentListingId, currentOfferId, currentPriorityId>>

-----------------------------------------------------------------------------
(* setupStripeRoutes: POST /api/billing/process-usage and report-usage.  Each *)
(* handler looks the event up, then awaits Stripe over the network, then     *)
(* marks the event; other requests are served while it waits.                *)

\* storage.markUsageEventAsProcessed(id, stripeInvoiceId, stripeUsageRecordId)
markUsageEventAsProcessed(events, id, stripeInvoiceId, stripeUsageRecordId) ==
    MapSet(events, id,
           Spread(events[id],
                  [processed |-> TRUE,
                   stripeInvoiceId |->
                       IF stripeInvoiceId # None THEN stripeInvoiceId
                       ELSE events[id].stripeInvoiceId,
                   stripeUsageRecordId |->
                       IF stripeUsageRecordId # None THEN stripeUsageRecordId
                       ELSE events[id].stripeUsageRecordId]))

\* the sequence without its i-th element
Without(seq, i) == SubSeq(seq, 1, i - 1) \o SubSeq(seq, i + 1, Len(seq))

BillingRequest(op, caller) ==
    req' = [op |-> op, caller |-> caller, listingId |-> None, offerId |-> None]

\* a billing handler from its first line to its first call of Stripe: route is
\* the route, customer tells whether req.user.stripeCustomerId is set
BillingBegin(route, caller, usageEventId, customer) ==
    /\ BillingRequest(route, caller)
    /\ UNCHANGED <<store, stripeObjects>>
    /\ IF caller = None THEN Respond(401, None, <<>>) /\ UNCHANGED awaiting
       ELSE IF usageEventId = None THEN Respond(400, None, <<>>) /\ UNCHANGED awaiting
       ELSE IF \/ Val(usageEventId) \notin DOMAIN usageEventsData
               \/ usageEventsData[Val(usageEventId)].userId # Val(caller)
       THEN Respond(404, None, <<>>) /\ UNCHANGED awaiting
       ELSE IF usageEventsData[Val(usageEventId)].processed
       THEN Respond(400, usageEventId, <<>>) /\ UNCHANGED awaiting
       ELSE IF route = "POST /api/billing/report-usage" /\ ~customer
       THEN Respond(400, usageEventId, <<>>) /\ UNCHANGED awaiting
       ELSE /\ awaiting' = Append(awaiting, [route |-> route, caller |-> caller,
                                             usageEventId |-> Val(usageEventId)])
            /\ Respond(0, usageEventId, <<>>)

\* process-usage: Stripe answers the payment intent, the event is marked
ProcessUsageComplete(i) ==
    /\ i \in DOMAIN awaiting
    /\ awaiting[i].route = "POST /api/billing/process-usage"
    /\ LET event == awaiting[i].usageEventId
           paymentIntent == Len(stripeObjects) + 1
       IN  /\ stripeObjects' = Append(stripeObjects, [object |-> "payment_intent",
                                                      usageEventId |-> event])
           /\ usageEventsData' = markUsageEventAsProcessed(usageEventsData, event,
                                                           Some(paymentIntent), None)
           /\ awaiting' = Without(awaiting, i)
           /\ BillingRequest(awaiting[i].route, awaiting[i].caller)
           /\ Respond(200, Some(event), <<>>)
           /\ UNCHANGED <<listingsData, offersData, listingPrioritiesData,
                          currentListingId, currentOfferId, currentPriorityId,
                          currentUsageEventId>>

\* report-usage: Stripe lists the subscriptions; without an active one the
\* handler answers 400, with one Stripe answers the usage record and the event
\* is marked
ReportUsageComplete(i, active) ==
    /\ i \in DOMAIN awaiting
    /\ awaiting[i].route = "POST /api/billing/report-usage"
    /\ awaiting' = Without(awaiting, i)
    /\ BillingRequest(awaiting[i].route, awaiting[i].caller)
    /\ UNCHANGED <<listingsData, offersData, listingPrioritiesData,
                   currentListingId, currentOfferId, currentPriorityId,
                   currentUsageEventId>>
    /\ LET event == awaiting[i].usageEventId
           usageRecord == Len(stripeObjects) + 1
       IN  IF ~active
           THEN /\ Respond(400, Some(event), <<>>)
                /\ UNCHANGED <<stripeObjects, usageEventsData>>
           ELSE /\ stripeObjects' = Append(stripeObjects, [object |-> "usage_record",
                                                           usageEventId |-> event])
                /\ usageEventsData' = markUsageEventAsProcessed(usageEventsData, event,
                                                                None, Some(usageRecord))
                /\ Respond(200, Some(event), <<>>)

\* the call of Stripe rejects: the catch answers 500, nothing is charged or marked
BillingCatch(i) ==
    /\ i \in DOMAIN awaiting
    /\ awaiting' = Without(awaiting, i)
    /\ BillingRequest(awaiting[i].route, awaiting[i].caller)
    /\ Respond(500, None, <<>>)
    /\ UNCHANGED <<store, stripeObjects>>

-----------------------------------------------------------------------------
(* The client forms that send POST /api/offers *)

\* CreateOffer page: useForm defaultValues and onSubmit; the form carries no
\* parentOfferId, versionNumber or isCounterOffer
CreateOfferBody(listingId, price, agentCommission, closingTimelineDays, contingencies) ==
    [listingId |-> listingId,
     parentOfferId |-> None,
     versionNumber |-> None,
     isCounterOffer |-> None,
     price |-> Some(price),
     agentCommission |-> Some(agentCommission),
     closingTimelineDays |-> Some(closingTimelineDays),
     contingencies |-> Some(contingencies)]

\* const nextVersionNumber = (originalOffer.versionNumber || 0) + 1
NextVersionNumber(originalOffer) ==
    (IF Truthy(originalOffer.versionNumber) THEN Val(originalOffer.versionNumber) ELSE 0) + 1

\* CounterOfferForm useEffect: form.reset({...}) from the original offer; the
\* user then edits the price
CounterOfferBody(originalOffer, price) ==
    [listingId |-> originalOffer.listingId,
     parentOfferId |-> Some(originalOffer.id),
     isCounterOffer |-> Some(TRUE),
     versionNumber |-> Some(NextVersionNumber(originalOffer)),
     price |-> Some(price),
     agentCommission |-> originalOffer.agentCommission,
     closingTimelineDays |-> originalOffer.closingTimelineDays,
     contingencies |-> Some(originalOffer.contingencies)]

\* GET /api/offers/:id answers the offer only to the owner of its listing: the
\* condition under which the counter-offer page has an originalOffer
CanLoadOffer(caller, offerId) ==
    /\ caller # None
    /\ offerId \in DOMAIN offersData
    /\ offersData[offerId].listingId \in DOMAIN listingsData
    /\ listingsData[offersData[offerId].listingId].userId = Val(caller)

-----------------------------------------------------------------------------
(* Spec: the server driven by the client pages of the repository (the        *)
(* CreateOffer page, the counter-offer page, the offer history)              *)

ListingIds == 1..MaxListings
OfferIds == 1..MaxOffers
NoLoan == [loanBalance |-> None]

RootPrice == 700000
CounterPrice == 695000

CreateListing ==
    /\ currentListingId <= MaxListings
    /\ \E caller \in Callers : PostListings(caller, NoLoan)

\* the CreateOffer page, submitted
CreateOfferSubmit ==
    /\ currentOfferId <= MaxOffers
    /\ \E caller \in Callers, l \in ListingIds :
          PostOffers("CreateOffer", caller,
                     CreateOfferBody(l, RootPrice, 3, 30, <<"inspection">>))

\* the counter-offer page, loaded with an original offer and submitted
CounterOfferSubmit ==
    /\ currentOfferId <= MaxOffers
    /\ \E caller \in Callers, offerId \in DOMAIN offersData :
          /\ CanLoadOffer(caller, offerId)
          /\ PostOffers("CounterOfferForm", caller,
                        CounterOfferBody(offersData[offerId], CounterPrice))

ReadOfferHistory ==
    \E caller \in Callers, offerId \in OfferIds : GetOfferHistory(caller, offerId)

Next ==
    \/ CreateListing
    \/ CreateOfferSubmit
    \/ CounterOfferSubmit
    \/ ReadOfferHistory

Spec == Init /\ [][Next]_vars

-----------------------------------------------------------------------------
(* SpecApi: the server driven by any HTTP client; the body of POST           *)
(* /api/offers is whatever passes insertOfferSchema                          *)

\* any listing; no parentOfferId, or the first or the last offer id the store
\* of the model hands out; no versionNumber
ApiBody(listingId, parentOfferId, price) ==
    [listingId |-> listingId,
     parentOfferId |-> parentOfferId,
     versionNumber |-> None,
     isCounterOffer |-> None,
     price |-> price,
     agentCommission |-> None,
     closingTimelineDays |-> Some(30),
     contingencies |-> None]

ApiBodies ==
    {ApiBody(l, p, Some(RootPrice)) :
        l \in ListingIds, p \in {None, Some(1), Some(MaxApiOffers)}}
        \cup {ApiBody(1, None, None)}

ApiPostOffers ==
    /\ currentOfferId <= MaxApiOffers
    /\ \E caller \in Callers, body \in ApiBodies : PostOffers("api", caller, body)

NextApi ==
    \/ CreateListing
    \/ ApiPostOffers
    \/ ReadOfferHistory

SpecApi == Init /\ [][NextApi]_vars

-----------------------------------------------------------------------------
(* SpecHist: one negotiation thread written through the API in any order of  *)
(* version numbers, and its history                                          *)

Versions == {None, Some(1), Some(2), Some(3)}

HistBody(parentOfferId, versionNumber) ==
    [ApiBody(1, parentOfferId, Some(RootPrice)) EXCEPT !.versionNumber = versionNumber]

HistBodies == {HistBody(p, v) : p \in {None, Some(1), Some(2)}, v \in Versions}

HistCreateListing ==
    /\ DOMAIN listingsData = {}
    /\ PostListings(Some(1), NoLoan)

HistPostOffers ==
    /\ currentOfferId <= MaxHistOffers
    /\ \E body \in HistBodies : PostOffers("api", Some(1), body)

HistReadOfferHistory ==
    \E offerId \in 1..MaxHistOffers : GetOfferHistory(Some(1), offerId)

NextHist ==
    \/ HistCreateListing
    \/ HistPostOffers
    \/ HistReadOfferHistory

SpecHist == Init /\ [][NextHist]_vars

-----------------------------------------------------------------------------
(* SpecRoutes: every listing-scoped route, called by the owner, by another   *)
(* user and without a session, on ids that exist and on ids that do not      *)

ListingPrice == 725000
PricedListing == [loanBalance |-> None, price |-> Some(ListingPrice)]

\* every user has one listing: user 1 creates listing 1, then user 2 listing 2;
\* the id after them is an id no listing has
RouteListingIds == Users \cup {Cardinality(Users) + 1}
RouteOfferIds == 1..(MaxRouteOffers + 1)

RoutesCreateListing ==
    /\ currentListingId \in Users
    /\ \E caller \in {None, Some(currentListingId)} : PostListings(caller, PricedListing)

RoutesReadListing ==
    \E caller \in Callers, id \in RouteListingIds : GetListing(caller, id)

RoutesPatchListing ==
    \E caller \in Callers, id \in RouteListingIds :
        PatchListing(caller, id, [loanBalance |-> Some(200000)])

RoutesPostOffers ==
    /\ currentOfferId <= MaxRouteOffers
    /\ currentUsageEventId <= MaxRouteEvents
    /\ \E caller \in Callers, l \in RouteListingIds, price \in {None, Some(RootPrice)} :
          PostOffers("api", caller, ApiBody(l, None, price))

RoutesReadListingOffers ==
    \E caller \in Callers, id \in RouteListingIds : GetListingOffers(caller, id)

RoutesReadOffer ==
    \E caller \in Callers, id \in RouteOfferIds : GetOffer(caller, id)

RoutesReadOfferHistory ==
    \E caller \in Callers, id \in RouteOfferIds : GetOfferHistory(caller, id)

RoutesReadPriorities ==
    \E caller \in Callers, id \in RouteListingIds : GetPriorities(caller, id)

RoutesPatchPriorities ==
    \E caller \in Callers, id \in RouteListingIds,
       body \in {[offerPrice |-> Some(8)], [offerPrice |-> None]} :
        PatchPriorities(caller, id, body)

RoutesReadInsights ==
    \E caller \in Callers, id \in RouteListingIds : GetInsights(caller, id)

RoutesExtract ==
    /\ currentUsageEventId <= MaxRouteEvents
    /\ \E caller \in Callers, file \in BOOLEAN,
          listingId \in {None} \cup {Some(l) : l \in RouteListingIds} :
          PostOffersExtract(caller, file, listingId, RequestFails)

NextRoutes ==
    \/ RoutesCreateListing
    \/ RoutesReadListing
    \/ RoutesPatchListing
    \/ RoutesPostOffers
    \/ RoutesReadListingOffers
    \/ RoutesReadOffer
    \/ RoutesReadOfferHistory
    \/ RoutesReadPriorities
    \/ RoutesPatchPriorities
    \/ RoutesReadInsights
    \/ RoutesExtract

SpecRoutes == Init /\ [][NextRoutes]_vars

-----------------------------------------------------------------------------
(* SpecCalc: the figures of POST /api/offers.  One user with one listing,    *)
(* whose loan balance is set at creation and patched; offer bodies sweep the *)
(* commission, the closing timeline, the contingency list and the price.     *)

CalcCallers == {None, Some(1)}
Loans == {None, Some(200000), Some(800000)}
Prices == {700000, 100000}
Commissions == {None, Some(0), Some(3), Some(20), Some(21), Some(25000)}
Timelines == {None, Some(30), Some(31), Some(250)}
ContingencyLists ==
    {None, Some(<<"inspection", "inspection">>)}
        \cup {Some(LabelList(k)) : k \in 0..MaxContingencies}

CalcBody(price, agentCommission, closingTimelineDays, contingencies) ==
    [listingId |-> 1,
     parentOfferId |-> None,
     versionNumber |-> None,
     isCounterOffer |-> None,
     price |-> Some(price),
     agentCommission |-> agentCommission,
     closingTimelineDays |-> closingTimelineDays,
     contingencies |-> contingencies]

CalcBodies ==
    {CalcBody(p, c, Some(30), Some(<<"inspection">>)) : p \in Prices, c \in Commissions}
        \cup {CalcBody(p, Some(3), d, Some(<<"inspection">>)) : p \in Prices, d \in Timelines}
        \cup {CalcBody(700000, Some(3), Some(30), l) : l \in ContingencyLists}
        \cup {CalcBody(100000, Some(3), Some(250), Some(LabelList(MaxContingencies)))}

CalcCreateListing ==
    /\ DOMAIN listingsData = {}
    /\ \E caller \in CalcCallers, loan \in Loans :
          PostListings(caller, [loanBalance |-> loan])

CalcPatchListing ==
    \E caller \in CalcCallers, loan \in Loans :
        PatchListing(caller, 1, [loanBalance |-> loan])

CalcPostOffers ==
    /\ currentOfferId <= MaxCalcOffers
    /\ \E caller \in CalcCallers, body \in CalcBodies : PostOffers("api", caller, body)

NextCalc ==
    \/ CalcCreateListing
    \/ CalcPatchListing
    \/ CalcPostOffers

SpecCalc == Init /\ [][NextCalc]_vars

-----------------------------------------------------------------------------
(* SpecInsights: one user with two listings, offers that differ and offers   *)
(* that tie in their scores, and the insights of a listing                   *)

\* net proceeds 675000, risk 8, overall 113; 99979, 10, 99; 699997, 6, -7
InsightBodies ==
    {[body EXCEPT !.listingId = l] :
        l \in Users,
        body \in {CalcBody(700000, Some(25000), Some(30), Some(<<"inspection">>)),
                  CalcBody(100000, Some(21), Some(30), Some(<<>>)),
                  CalcBody(700000, Some(3), Some(250), Some(LabelList(2)))}}

InsightCreateListing ==
    /\ currentListingId \in Users
    /\ \E caller \in CalcCallers : PostListings(caller, NoLoan)

InsightPostOffers ==
    /\ currentOfferId <= MaxInsightOffers
    /\ \E caller \in CalcCallers, body \in InsightBodies : PostOffers("api", caller, body)

ReadInsights ==
    \E caller \in CalcCallers, l \in Users : GetInsights(caller, l)

NextInsights ==
    \/ InsightCreateListing
    \/ InsightPostOffers
    \/ ReadInsights

SpecInsights == Init /\ [][NextInsights]_vars

-----------------------------------------------------------------------------
(* SpecExtract: one user with one listing who enters offers by hand (a root, *)
(* counters) and uploads documents; the OpenAI call ends in every way it can *)

\* an offer as the model answers it for a legible document
GenuineOffer ==
    [buyerName |-> Some("James & Sarah Robinson"),
     price |-> Some(710000),
     agentCommission |-> Some(250),
     closingTimelineDays |-> Some(45),
     contingencies |-> Some(<<"financing", "inspection">>),
     notes |-> Some("")]

\* the JSON object {}: valid JSON that holds none of the fields
EmptyObject ==
    [buyerName |-> None,
     price |-> None,
     agentCommission |-> None,
     closingTimelineDays |-> None,
     contingencies |-> None,
     notes |-> None]

Answers == {NoApiKey, RequestFails, NoContent, NotJson, Json(GenuineOffer), Json(EmptyObject)}

ExtractCreateListing ==
    /\ DOMAIN listingsData = {}
    /\ \E caller \in CalcCallers : PostListings(caller, PricedListing)

ExtractCreateOffer ==
    /\ currentOfferId <= MaxExtractOffers
    /\ currentUsageEventId <= MaxExtractEvents
    /\ \E caller \in CalcCallers :
          PostOffers("CreateOffer", caller,
                     CreateOfferBody(1, RootPrice, 3, 30, <<"inspection">>))

ExtractCounterOffer ==
    /\ currentOfferId <= MaxExtractOffers
    /\ currentUsageEventId <= MaxExtractEvents
    /\ \E caller \in CalcCallers, offerId \in DOMAIN offersData :
          /\ CanLoadOffer(caller, offerId)
          /\ PostOffers("CounterOfferForm", caller,
                        CounterOfferBody(offersData[offerId], CounterPrice))

ExtractDocument ==
    /\ currentUsageEventId <= MaxExtractEvents
    /\ \E caller \in CalcCallers, file \in BOOLEAN, listingId \in {None, Some(1)},
          answer \in Answers :
          PostOffersExtract(caller, file, listingId, answer)

NextExtract ==
    \/ ExtractCreateListing
    \/ ExtractCreateOffer
    \/ ExtractCounterOffer
    \/ ExtractDocument

SpecExtract == Init /\ [][NextExtract]_vars

-----------------------------------------------------------------------------
(* SpecFault: the client pages against a storage whose createUsageEvent may  *)
(* reject                                                                    *)

FaultCreateOffer ==
    /\ currentOfferId <= MaxOffers
    /\ \E caller \in Callers, l \in ListingIds :
          PostOffersUsageEventFails("CreateOffer", caller,
                                    CreateOfferBody(l, RootPrice, 3, 30, <<"inspection">>))

NextFault ==
    \/ CreateListing
    \/ CreateOfferSubmit
    \/ CounterOfferSubmit
    \/ FaultCreateOffer

SpecFault == Init /\ [][NextFault]_vars

-----------------------------------------------------------------------------
(* SpecPriorities: listings, reads of their priorities and patches of them   *)

\* a weight in range, a weight that is null, the first integers outside 1..10,
\* and a body that names a listing
PriorityBodies ==
    {[offerPrice |-> Some(8)], [offerPrice |-> None],
     [offerPrice |-> Some(11)], [netProceeds |-> Some(0)]}
        \cup {[listingId |-> Some(l)] : l \in Users}

PrioritiesCreateListing ==
    /\ currentListingId \in Users
    /\ \E caller \in Callers : PostListings(caller, NoLoan)

ReadPriorities ==
    /\ currentPriorityId <= MaxPriorities
    /\ \E caller \in Callers, l \in Users : GetPriorities(caller, l)

PatchPrioritiesAny ==
    /\ currentPriorityId <= MaxPriorities
    /\ \E caller \in Callers, l \in Users, body \in PriorityBodies :
          PatchPriorities(caller, l, body)

NextPriorities ==
    \/ PrioritiesCreateListing
    \/ ReadPriorities
    \/ PatchPrioritiesAny

SpecPriorities == Init /\ [][NextPriorities]_vars

-----------------------------------------------------------------------------
(* SpecNorm: the commission heuristic of POST /api/offers and of POST        *)
(* /api/offers/extract over a price of a house and a small price, and over   *)
(* commissions on both sides of the threshold of 20                          *)

NormPrices == {RootPrice, 1000}
NormCommissions == {None, Some(0), Some(2), Some(3), Some(20), Some(21), Some(25000)}
NormContingencies == {None, Some(<<>>), Some(<<"financing", "inspection">>)}

NormBodies ==
    {CalcBody(p, c, Some(30), l) :
        p \in NormPrices, c \in NormCommissions, l \in NormContingencies}

\* the offer a document yields: agentCommission c of a body is c * 100 hundredths
NormAnswers ==
    {Json([GenuineOffer EXCEPT !.price = Some(p),
                               !.agentCommission =
                                   IF c = None THEN None ELSE Some(Val(c) * 100)]) :
        p \in NormPrices, c \in NormCommissions}

NormCreateListing ==
    /\ DOMAIN listingsData = {}
    /\ \E caller \in CalcCallers, loan \in {None, Some(200000)} :
          PostListings(caller, [loanBalance |-> loan, price |-> Some(ListingPrice)])

NormPostOffers ==
    /\ currentOfferId <= MaxNormOffers
    /\ \E caller \in CalcCallers, body \in NormBodies : PostOffers("api", caller, body)

NormExtract ==
    /\ currentUsageEventId <= MaxNormOffers
    /\ \E caller \in CalcCallers, answer \in NormAnswers :
          PostOffersExtract(caller, TRUE, Some(1), answer)

NextNorm ==
    \/ NormCreateListing
    \/ NormPostOffers
    \/ NormExtract

SpecNorm == Init /\ [][NextNorm]_vars

-----------------------------------------------------------------------------
(* SpecOrder: POST /api/offers step by step, as the handler awaits the store. *)
(* With MemStorage every await of a handler resolves in the same turn of the  *)
(* event loop, so no other request is served while one is in progress.        *)

OrderCreateListing ==
    /\ ~AwaitingUsageEvent
    /\ currentListingId \in Users
    /\ \E caller \in {None, Some(currentListingId)} : PostListings(caller, NoLoan)

OrderPostOffers ==
    /\ ~AwaitingUsageEvent
    /\ currentOfferId <= MaxOrderOffers
    /\ \E caller \in Callers, l \in RouteListingIds, parent \in {None, Some(1)},
          price \in {None, Some(RootPrice), Some(CounterPrice)} :
          PostOffersCreateOffer("api", caller, ApiBody(l, parent, price))

NextOrder ==
    \/ OrderCreateListing
    \/ OrderPostOffers
    \/ PostOffersCreateUsageEvent
    \/ PostOffersCatch

SpecOrder == Init /\ [][NextOrder]_vars

-----------------------------------------------------------------------------
(* SpecBilling: one user whose offers leave usage events, and the billing    *)
(* requests of the user and of a caller without a session, in any order      *)

BillingRoutes == {"POST /api/billing/process-usage", "POST /api/billing/report-usage"}
BillingEventIds == {None} \cup {Some(e) : e \in 1..(MaxBillingEvents + 1)}

BillingCreateListing ==
    /\ DOMAIN listingsData = {}
    /\ PostListings(Some(1), NoLoan)

BillingPostOffers ==
    /\ currentUsageEventId <= MaxBillingEvents
    /\ PostOffers("CreateOffer", Some(1),
                  CreateOfferBody(1, RootPrice, 3, 30, <<"inspection">>))

BillingStart ==
    /\ Len(awaiting) < MaxAwaiting
    /\ \E route \in BillingRoutes, caller \in CalcCallers, usageEventId \in BillingEventIds,
          customer \in BOOLEAN :
          BillingBegin(route, caller, usageEventId, customer)

ProcessUsageAnswered == \E i \in DOMAIN awaiting : ProcessUsageComplete(i)

ReportUsageAnswered == \E i \in DOMAIN awaiting, active \in BOOLEAN : ReportUsageComplete(i, active)

StripeRejects == \E i \in DOMAIN awaiting : BillingCatch(i)

NextBilling ==
    \/ BillingCreateListing
    \/ BillingPostOffers
    \/ BillingStart
    \/ ProcessUsageAnswered
    \/ ReportUsageAnswered
    \/ StripeRejects

SpecBilling == Init /\ [][NextBilling]_vars

-----------------------------------------------------------------------------
(* SpecFrame: one user with one listing; offers and counter-offers are       *)
(* created while the listing and its priorities are patched, usage events    *)
(* are billed and everything is read                                         *)

FrameCreateListing ==
    /\ DOMAIN listingsData = {}
    /\ PostListings(Some(1), NoLoan)

FrameCreateOffer ==
    /\ currentOfferId <= MaxFrameOffers
    /\ PostOffers("CreateOffer", Some(1),
                  CreateOfferBody(1, RootPrice, 3, 30, <<"inspection">>))

FrameCounterOffer ==
    /\ currentOfferId <= MaxFrameOffers
    /\ \E offerId \in DOMAIN offersData :
          /\ CanLoadOffer(Some(1), offerId)
          /\ PostOffers("CounterOfferForm", Some(1),
                        CounterOfferBody(offersData[offerId], CounterPrice))

FramePatchListing ==
    \E caller \in CalcCallers, body \in {[loanBalance |-> Some(200000)],
                                         [status |-> "sold"]} :
        PatchListing(caller, 1, body)

FramePatchPriorities ==
    \E caller \in CalcCallers : PatchPriorities(caller, 1, [netProceeds |-> Some(10)])

FrameReadOffers ==
    \/ GetListingOffers(Some(1), 1)
    \/ \E offerId \in 1..MaxFrameOffers : GetOffer(Some(1), offerId)
    \/ \E offerId \in 1..MaxFrameOffers : GetOfferHistory(Some(1), offerId)

FrameReadListing ==
    \/ GetListing(Some(1), 1)
    \/ GetPriorities(Some(1), 1)
    \/ GetInsights(Some(1), 1)

FrameBillingStart ==
    /\ awaiting = <<>>
    /\ \E route \in BillingRoutes, usageEventId \in DOMAIN usageEventsData :
          BillingBegin(route, Some(1), Some(usageEventId), TRUE)

NextFrame ==
    \/ FrameCreateListing
    \/ FrameCreateOffer
    \/ FrameCounterOffer
    \/ FramePatchListing
    \/ FramePatchPriorities
    \/ FrameReadOffers
    \/ FrameReadListing
    \/ FrameBillingStart
    \/ ProcessUsageAnswered
    \/ ReportUsageAnswered
    \/ StripeRejects

SpecFrame == Init /\ [][NextFrame]_vars

-----------------------------------------------------------------------------
(* SpecListings: every user creates one listing (user 1 listing 1, user 2    *)
(* listing 2) and the listings are patched with any body: PATCH              *)
(* /api/listings/:id passes req.body to the store as it is                   *)

ListingPatches ==
    {[loanBalance |-> Some(200000)], [status |-> "sold"], [status |-> "active"]}
        \cup {[userId |-> u] : u \in Users}
        \cup {[id |-> k] : k \in Users}

ListingsCreateListing ==
    /\ currentListingId \in Users
    /\ \E caller \in {None, Some(currentListingId)} : PostListings(caller, NoLoan)

ListingsPatchListing ==
    \E caller \in Callers, id \in RouteListingIds, body \in ListingPatches :
        PatchListing(caller, id, body)

ListingsReadListing ==
    \E caller \in Callers, id \in RouteListingIds : GetListing(caller, id)

NextListings ==
    \/ ListingsCreateListing
    \/ ListingsPatchListing
    \/ ListingsReadListing

SpecListings == Init /\ [][NextListings]_vars

-----------------------------------------------------------------------------
(* Properties.                                                               *)
(* OfferCreated is the state right after POST /api/offers answered 201:      *)
(* CreatedOffer is the record just stored and CreatedListing its listing, as *)
(* the handler saw it.                                                       *)

OfferOps == {"CreateOffer", "CounterOfferForm", "api"}
OfferCreated == req.op \in OfferOps /\ res.status = 201
CreatedOffer == offersData[Val(res.id)]
CreatedListing == listingsData[CreatedOffer.listingId]

\* The dollar commission of the normalizer contract: 6% of the price when no
\* commission is given, price * c / 100 for c <= 20, c itself above 20.
ResolvedCommission(price, c) ==
    IF c = None THEN (6 * price) \div 100
    ELSE IF Val(c) <= 20 THEN (price * Val(c)) \div 100
    ELSE Val(c)

\* C1: the netProceeds stored for a created offer is price - loanBalance -
\* resolved commission (loanBalance 0 when the listing records none), exactly,
\* negative results included.  The contract resolves a missing commission and a
\* commission above 0; the formula leaves a commission of 0 aside.
C1_NetProceedsExact ==
    (OfferCreated /\ CreatedOffer.agentCommission # Some(0)) =>
        CreatedOffer.netProceeds =
            CreatedOffer.price - LoanBalance(CreatedListing)
                - ResolvedCommission(CreatedOffer.price, CreatedOffer.agentCommission)

\* C2: for a commission input c with 0 < c <= 20 the dollar commission used for
\* the created offer is price * c / 100, and for c > 20 it is c.  The commission
\* used is what the stored netProceeds leaves of the price; the formula looks at
\* listings without a loan balance, where nothing else is deducted.
C2_CommissionThreshold ==
    (/\ OfferCreated
     /\ LoanBalance(CreatedListing) = 0
     /\ CreatedOffer.agentCommission # None
     /\ Val(CreatedOffer.agentCommission) > 0)
    => LET c == Val(CreatedOffer.agentCommission)
           used == CreatedOffer.price - CreatedOffer.netProceeds
       IN  /\ c <= 20 => used = (CreatedOffer.price * c) \div 100
           /\ c > 20 => used = c

\* C3: when an offer is created with no agentCommission, the commission taken
\* off the price in the stored netProceeds is 6% of the price.
C3_DefaultCommission ==
    (OfferCreated /\ CreatedOffer.agentCommission = None)
    => 100 * (CreatedOffer.price - CreatedOffer.netProceeds) = 6 * CreatedOffer.price

C3_Witness ==
    /\ OfferCreated
    /\ CreatedOffer.agentCommission = None
    /\ CreatedOffer.price = 700000
    /\ CreatedOffer.netProceeds = 658000

\* C4: the stored riskScore of an offer with n contingencies is max(1, 10 - 2n):
\* within 1..10, 10 for n = 0, 1 for n >= 5, and non-increasing in n.
C4_RiskScore ==
    /\ \A id \in DOMAIN offersData :
          LET n == Len(offersData[id].contingencies)
              r == offersData[id].riskScore
          IN  /\ r \in 1..10
              /\ n = 0 => r = 10
              /\ n >= 5 => r = 1
              /\ n < 5 => r = 10 - 2 * n
    /\ \A a, b \in DOMAIN offersData :
          Len(offersData[a].contingencies) <= Len(offersData[b].contingencies)
              => offersData[a].riskScore >= offersData[b].riskScore

C4_Witness ==
    \E a, b \in DOMAIN offersData :
        /\ Len(offersData[a].contingencies) = 0
        /\ offersData[a].riskScore = 10
        /\ Len(offersData[b].contingencies) > 5
        /\ offersData[b].riskScore = 1

\* C5: the stored overallScore is price/1,000,000 * 40 + riskScore * 5 +
\* (60 - closingTimelineDays/2) of the offer's own fields, rounded to the nearest
\* integer (a half rounds up), and is not clamped to 0..100: price 700,000, one
\* contingency and 30 days give 113.  With x = N / 50000 the score s is the
\* integer with s - 1/2 <= x < s + 1/2.  An offer without closingTimelineDays
\* gets no number (NaN).
C5_OverallScore ==
    \A id \in DOMAIN offersData :
        LET o == offersData[id]
        IN  IF o.closingTimelineDays = None THEN o.overallScore = None
            ELSE
              LET N == 2 * o.price + 50000 * (5 * o.riskScore + 60)
                         - 25000 * Val(o.closingTimelineDays)
                  s == Val(o.overallScore)
              IN  /\ o.overallScore # None
                  /\ 100000 * s - 50000 <= 2 * N
                  /\ 2 * N < 100000 * s + 50000
                  /\ (/\ o.price = 700000
                      /\ Len(o.contingencies) = 1
                      /\ o.closingTimelineDays = Some(30)) => s = 113

C5_Witness ==
    \E a, b \in DOMAIN offersData :
        /\ offersData[a].overallScore = Some(113)
        /\ offersData[b].overallScore # None
        /\ Val(offersData[b].overallScore) < 0

\* C6: contingencies have set semantics at offer creation: a missing list is
\* stored empty, the stored list has no duplicates, and the risk score counts
\* each distinct label once.
C6_ContingencySet ==
    \A id \in DOMAIN offersData :
        LET list == offersData[id].contingencies
            distinct == Cardinality({list[i] : i \in DOMAIN list})
        IN  /\ \A i, j \in DOMAIN list : list[i] = list[j] => i = j
            /\ offersData[id].riskScore
                  = (IF 10 - 2 * distinct > 1 THEN 10 - 2 * distinct ELSE 1)

\* The version an offer counts as: the versionNumber stored, and 1 (the default
\* of the column, and the sort key of the history) when none is stored.
VersionNumber(offer) ==
    IF offer.versionNumber = None THEN 1 ELSE Val(offer.versionNumber)

\* C7: a counter-offer created against a parent has versionNumber =
\* parent.versionNumber + 1, parentOfferId = parent.id and isCounterOffer = true,
\* so versionNumber grows by exactly 1 along every parent-to-child edge.
C7_CounterVersion ==
    \A id \in DOMAIN offersData :
        LET o == offersData[id]
        IN  o.parentOfferId # None =>
              /\ Val(o.parentOfferId) \in DOMAIN offersData
              /\ o.isCounterOffer = Some(TRUE)
              /\ o.versionNumber
                    = Some(VersionNumber(offersData[Val(o.parentOfferId)]) + 1)

\* C8: an offer created as a root is stored with versionNumber = 1 and
\* parentOfferId = null.
C8_RootVersion ==
    (req.op = "CreateOffer" /\ res.status = 201)
    => /\ CreatedOffer.versionNumber = Some(1)
       /\ CreatedOffer.parentOfferId = None

\* C9: every offer whose parentOfferId is not null refers to an existing offer
\* of the same listing.
C9_ParentResolves ==
    \A id \in DOMAIN offersData :
        LET o == offersData[id]
        IN  o.parentOfferId # None =>
              /\ Val(o.parentOfferId) \in DOMAIN offersData
              /\ offersData[Val(o.parentOfferId)].listingId = o.listingId

\* a thread that is the chain a -> b -> c and nothing else
IsChain(a, b, c) ==
    /\ offersData[a].parentOfferId = None
    /\ offersData[b].parentOfferId = Some(a)
    /\ offersData[c].parentOfferId = Some(b)
    /\ \A id \in DOMAIN offersData :
          offersData[id].parentOfferId \in {Some(a), Some(b), Some(c)} => id \in {b, c}

\* C10: for a thread built as a chain v1 -> v2 -> v3 the history answers all
\* three offers, whichever of the three is asked for.
C10_HistoryOfChain ==
    (req.op = "GET /api/offers/:id/history" /\ res.status = 200)
    => \A a, b, c \in DOMAIN offersData :
          (IsChain(a, b, c) /\ Val(res.id) \in {a, b, c})
              => {res.list[i] : i \in DOMAIN res.list} = {a, b, c}

ReadOps ==
    {"GET /api/listings/:id", "GET /api/listings/:listingId/offers", "GET /api/offers/:id",
     "GET /api/offers/:id/history", "GET /api/listings/:listingId/priorities",
     "GET /api/listings/:listingId/insights"}

\* the request names a listing id or an offer id that the store does not hold
MissingTarget ==
    \/ req.listingId # None /\ Val(req.listingId) \notin DOMAIN listingsData
    \/ req.offerId # None /\ Val(req.offerId) \notin DOMAIN offersData

\* C12: a read by an authenticated caller that names a listing or an offer that
\* does not exist is answered NotFound (404), for the history of an offer as for
\* the offers, the priorities and the insights of a listing.
C12_NotFound ==
    (req.op \in ReadOps /\ req.caller # None /\ MissingTarget) => res.status = 404

\* The listing a request is about: the one it names, or the one of the offer it
\* names.
TargetListing(request, offers) ==
    IF request.listingId # None THEN request.listingId
    ELSE IF request.offerId # None /\ Val(request.offerId) \in DOMAIN offers
    THEN Some(offers[Val(request.offerId)].listingId)
    ELSE None

\* the step answers an authenticated caller about a listing of another user
NonOwnerRequest ==
    /\ req'.caller # None
    /\ LET listing == TargetListing(req', offersData)
       IN  /\ listing # None
           /\ Val(listing) \in DOMAIN listingsData
           /\ listingsData[Val(listing)].userId # Val(req'.caller)

NoData(response) == response.id = None /\ response.list = <<>> /\ response.body = None

\* C13 as stated: an authenticated caller who does not own the listing is
\* answered Forbidden (403), receives no data, and the store does not change.
C13_NonOwnerForbidden ==
    [][NonOwnerRequest => (res'.status = 403 /\ NoData(res') /\ UNCHANGED store)]_vars

\* C13, amended: an authenticated caller who does not own the listing receives
\* no data and changes nothing in the store, and is answered Forbidden (403),
\* except that POST /api/offers and POST /api/offers/extract validate the request
\* before they look at the listing and answer an invalid one with 400.
C13_NonOwnerRejected ==
    [][NonOwnerRequest =>
          /\ \/ res'.status = 403
             \/ res'.status = 400 /\ req'.op \in {"api", "POST /api/offers/extract"}
          /\ NoData(res')
          /\ UNCHANGED store]_vars

\* a user who has an offer of their own was refused the extraction on the
\* listing of another user
C13_Witness ==
    /\ req.op = "POST /api/offers/extract"
    /\ req.caller # None
    /\ res.status = 403
    /\ Val(req.listingId) \in DOMAIN listingsData
    /\ listingsData[Val(req.listingId)].userId # Val(req.caller)
    /\ \E id \in DOMAIN offersData : offersData[id].userId = Val(req.caller)

\* The insight operation answered the owner of the listing it names.
InsightsAnswered ==
    /\ req.op = "GET /api/listings/:listingId/insights"
    /\ req.caller # None
    /\ Val(req.listingId) \in DOMAIN listingsData
    /\ listingsData[Val(req.listingId)].userId = Val(req.caller)

\* the offers of the listing the request names
ListingOffers == {id \in DOMAIN offersData : offersData[id].listingId = Val(req.listingId)}

\* C14: the insight operation on a listing with exactly one offer does not
\* error: it answers a structured result whose recommendation names that offer,
\* with the net-proceeds statement left out or special-cased.
C14_SingleOfferInsights ==
    (InsightsAnswered /\ Cardinality(ListingOffers) = 1)
    => /\ res.status = 200
       /\ res.body # None
       /\ \E id \in ListingOffers : Val(res.body).recommendation.offer = Some(id)

\* C15: the insight operation on a listing with no offers raises no error and
\* answers the "no offers yet" result: the recommendation set and the other
\* three fields null.
C15_NoOffersInsights ==
    (InsightsAnswered /\ ListingOffers = {})
    => /\ res.status = 200
       /\ res.body # None
       /\ Val(res.body).recommendation.text = "No offers to analyze yet"
       /\ Val(res.body).recommendation.offer = None
       /\ Val(res.body).riskAssessment = None
       /\ Val(res.body).netProceedsComparison = None
       /\ Val(res.body).negotiationOpportunities = None

\* the listing asked about has no offers while the other listing has some
C15_Witness ==
    /\ InsightsAnswered
    /\ ListingOffers = {}
    /\ DOMAIN offersData # {}
    /\ res.status = 200
    /\ Val(res.body).recommendation.text = "No offers to analyze yet"

\* id is, among the offers of ids, the earliest created one with the greatest
\* value of the field (ids grow with creation)
EarliestMaximal(id, ids, field) ==
    /\ id \in ids
    /\ \A other \in ids :
          /\ Val(Score(offersData[other], field)) <= Val(Score(offersData[id], field))
          /\ Val(Score(offersData[other], field)) = Val(Score(offersData[id], field))
                => id <= other

\* C16: for every non-empty offer set of a listing the insight operation names
\* as best overall an offer of maximal overallScore, as lowest risk one of
\* maximal riskScore and as highest net proceeds one of maximal netProceeds,
\* each time the earliest created among those with the maximal value.
C16_InsightSelection ==
    (InsightsAnswered /\ ListingOffers # {})
    => /\ res.status = 200
       /\ res.body # None
       /\ Val(res.body).recommendation.offer # None
       /\ EarliestMaximal(Val(Val(res.body).recommendation.offer), ListingOffers,
                          "overallScore")
       /\ Val(res.body).riskAssessment # None
       /\ EarliestMaximal(Val(Val(res.body).riskAssessment).offer, ListingOffers,
                          "riskScore")
       /\ Val(res.body).netProceedsComparison # None
       /\ EarliestMaximal(Val(Val(res.body).netProceedsComparison).offer, ListingOffers,
                          "netProceeds")

\* C16 for the listings whose insights the operation does answer (two offers or
\* more): the selection rule and its tie-break hold there.
C16_SelectionOfTwoOrMore ==
    (InsightsAnswered /\ Cardinality(ListingOffers) >= 2) => C16_InsightSelection

\* The step appends one unprocessed usage event of the type and the amount (in
\* cents) for the caller, and leaves every other event as it was.
OneEventAppended(type, amount) ==
    \E id \in DOMAIN usageEventsData' :
        /\ id \notin DOMAIN usageEventsData
        /\ DOMAIN usageEventsData' = DOMAIN usageEventsData \cup {id}
        /\ \A old \in DOMAIN usageEventsData : usageEventsData'[old] = usageEventsData[old]
        /\ usageEventsData'[id].userId = Val(req'.caller)
        /\ usageEventsData'[id].eventType = type
        /\ usageEventsData'[id].amount = amount
        /\ usageEventsData'[id].processed = FALSE

\* C17: every successful offer creation, root or counter, appends exactly one
\* unprocessed usage event offer_creation of 1.00 for the caller, every
\* successful extraction exactly one document_extraction of 2.50, and no other
\* step appends a usage event; the extraction costs more than the creation.
C17_UsageEvents ==
    [][/\ (req'.op \in OfferOps /\ res'.status = 201)
             => OneEventAppended("offer_creation", 100)
       /\ (req'.op = "POST /api/offers/extract" /\ res'.status = 200)
             => OneEventAppended("document_extraction", 250)
       /\ ~(\/ req'.op \in OfferOps /\ res'.status = 201
            \/ req'.op = "POST /api/offers/extract" /\ res'.status = 200)
             => usageEventsData' = usageEventsData
       /\ ExtractionAmount > OfferCreationAmount]_vars

\* a root, a counter to it and an extraction, one unprocessed event each
C17_Witness ==
    /\ \E id \in DOMAIN offersData : offersData[id].parentOfferId # None
    /\ Cardinality({id \in DOMAIN usageEventsData :
                      usageEventsData[id].eventType = "offer_creation"})
          = Cardinality(DOMAIN offersData)
    /\ \E id \in DOMAIN usageEventsData :
          /\ usageEventsData[id].eventType = "document_extraction"
          /\ usageEventsData[id].amount = 250
    /\ \A id \in DOMAIN usageEventsData : usageEventsData[id].processed = FALSE

Usable(payload) ==
    /\ payload.buyerName # None
    /\ payload.price # None
    /\ payload.closingTimelineDays # None
    /\ payload.contingencies # None

\* C19: an extraction for the owner of the listing with a document uploaded
\* never answers an error, and when the collaborator failed or answered unusable
\* data the payload is the placeholder offer, whose notes mark it as fallback
\* data: every payload answered is usable, and is either genuine or marked.
C19_ExtractionFallback ==
    (req.op = "POST /api/offers/extract" /\ res.status \notin {400, 401, 403})
    => /\ res.status = 200
       /\ res.body # None
       /\ Usable(Val(res.body))
       /\ Val(res.body).notes # Some(FallbackNotes) => Val(res.body) \in
             {Spread(GenuineOffer, [netProceeds |-> n]) : n \in {Val(res.body).netProceeds}}

\* C20: every existing listing has exactly one priority profile, whatever the
\* order of listing creations, priority reads and priority patches.
C20_OneProfilePerListing ==
    \A l \in DOMAIN listingsData :
        Cardinality({id \in DOMAIN listingPrioritiesData :
                        listingPrioritiesData[id].listingId = l}) = 1

Weights == {"offerPrice", "netProceeds", "closingTimeline", "contingencies",
            "buyerQualification"}

\* C21: after any sequence of profile creations and partial patches, each of the
\* five weights of every stored priority profile is an integer in 1..10.
C21_WeightsInRange ==
    \A id \in DOMAIN listingPrioritiesData :
        \A w \in Weights :
            /\ w \in DOMAIN listingPrioritiesData[id]
            /\ listingPrioritiesData[id][w] \in 1..10

ExtractionAnswered == req.op = "POST /api/offers/extract" /\ res.status = 200

\* C22: the normalization is idempotent.  For the commission input and the price
\* of every created offer, and of every extracted offer, resolving the resolved
\* dollar amount again gives the same amount; and contingencies that are stored
\* (no longer absent) are stored again as they are.
C22_NormalizationIdempotent ==
    /\ OfferCreated =>
          LET price == CreatedOffer.price
              resolved == RouteCommission(price, CreatedOffer.agentCommission)
          IN  /\ RouteCommission(price, Some(resolved)) = resolved
              /\ ContingenciesOrEmpty(Some(CreatedOffer.contingencies))
                    = CreatedOffer.contingencies
    /\ (ExtractionAnswered /\ Val(res.body).price # None) =>
          LET price == Val(Val(res.body).price)
              resolved == ExtractCommission(price, Val(res.body).agentCommission)
          IN  ExtractCommission(price, Some(resolved * 100)) = resolved

\* the same for the offers whose resolved commission is 0 or more than 20 dollars
C22_IdempotentAboveThreshold ==
    /\ OfferCreated =>
          LET price == CreatedOffer.price
              resolved == RouteCommission(price, CreatedOffer.agentCommission)
          IN  (resolved = 0 \/ resolved > 20)
                 => RouteCommission(price, Some(resolved)) = resolved
    /\ (ExtractionAnswered /\ Val(res.body).price # None) =>
          LET price == Val(Val(res.body).price)
              resolved == ExtractCommission(price, Val(res.body).agentCommission)
          IN  (resolved = 0 \/ resolved > 20)
                 => ExtractCommission(price, Some(resolved * 100)) = resolved

\* every offer_creation usage event of a user is matched by an offer the user
\* has stored
EventsCovered ==
    \A u \in Users :
        Cardinality({id \in DOMAIN usageEventsData :
                        /\ usageEventsData[id].eventType = "offer_creation"
                        /\ usageEventsData[id].userId = u})
           <= Cardinality({id \in DOMAIN offersData : offersData[id].userId = u})

\* C23: the offer is persisted before its usage event is recorded.  In every
\* state the offer_creation events are matched by stored offers; a step that
\* records a usage event stores no offer and answers an offer that was stored
\* before the step; and a creation request refused before persistence (401, 400,
\* 404, 403) records no usage event and stores no offer.
C23_PersistBeforeBilling ==
    [][/\ EventsCovered'
       /\ usageEventsData' # usageEventsData =>
             /\ offersData' = offersData
             /\ res'.id # None
             /\ Val(res'.id) \in DOMAIN offersData
       /\ (req'.op \in OfferOps /\ res'.status \in {400, 401, 403, 404}) =>
             /\ usageEventsData' = usageEventsData
             /\ offersData' = offersData]_vars

\* two creations answered, each with its usage event, after a refused request
C23_Witness ==
    /\ OfferCreated
    /\ Cardinality(DOMAIN offersData) = 2
    /\ Cardinality(DOMAIN usageEventsData) = 2
    /\ \A id \in DOMAIN usageEventsData : usageEventsData[id].eventType = "offer_creation"

\* C24: two counter-offers created from the counter-offer page on the same
\* offer, whichever way the two submissions interleave, never carry the same
\* versionNumber.  (The page computes the body from the offer it has loaded; a
\* stored offer never changes, so the body is the same whenever it was loaded.)
C24_NoSharedVersion ==
    \A a, b \in DOMAIN offersData :
        (/\ a # b
         /\ offersData[a].parentOfferId # None
         /\ offersData[a].parentOfferId = offersData[b].parentOfferId)
        => offersData[a].versionNumber # offersData[b].versionNumber

\* the Stripe objects created for a usage event
ChargesOf(event) == {i \in DOMAIN stripeObjects : stripeObjects[i].usageEventId = event}

\* C28: whatever the order of process-usage and report-usage requests, each
\* usage event is charged at most once (at most one payment intent or usage
\* record exists for it), a processed event stays processed, and no step charges
\* an event that is already processed.
C28_ChargedAtMostOnce ==
    [][/\ \A e \in DOMAIN usageEventsData' : Cardinality(ChargesOf(e)') <= 1
       /\ \A e \in DOMAIN usageEventsData :
             usageEventsData[e].processed =>
                 /\ usageEventsData'[e].processed
                 /\ ChargesOf(e)' = ChargesOf(e)]_vars

\* a processed event stays processed
C28_ProcessedIsStable ==
    [][\A e \in DOMAIN usageEventsData :
          usageEventsData[e].processed => usageEventsData'[e].processed]_vars

\* C25: no request changes or removes an offer once it is stored.  Every step,
\* be it the creation of a counter-offer, a patch of the listing (its loan
\* balance included) or of its priorities, a billing step or a read, leaves
\* every stored offer, and so its netProceeds, riskScore and overallScore, as it
\* was written.
C25_OffersImmutable ==
    [][\A id \in DOMAIN offersData :
          /\ id \in DOMAIN offersData'
          /\ offersData'[id] = offersData[id]]_vars

\* a root and its counter, stored before the loan balance and the priorities
\* were patched and a usage event was charged; the root still has the net
\* proceeds written at its creation (700000 - 3, no loan balance deducted)
C25_Witness ==
    /\ DOMAIN offersData = {1, 2}
    /\ offersData[2].parentOfferId = Some(1)
    /\ offersData[1].netProceeds = 699997
    /\ listingsData[1].loanBalance = Some(200000)
    /\ \E p \in DOMAIN listingPrioritiesData : listingPrioritiesData[p].netProceeds = 10
    /\ \E e \in DOMAIN usageEventsData : usageEventsData[e].processed
    /\ req.op = "GET /api/offers/:id/history"
    /\ res.status = 200

\* C29: a listing keeps its owner and its id.  After any sequence of patches,
\* with any body, the userId of every listing is the user who created it (user n
\* created listing n) and its id is the key it is stored under.
C29_ListingOwnerKept ==
    \A k \in DOMAIN listingsData :
        /\ listingsData[k].userId = k
        /\ listingsData[k].id = k

\* C26: a creation request without a price or without closingTimelineDays is
\* refused before any score is computed, so every stored offer has a
\* closingTimelineDays and a numeric overallScore.
C26_RequiredInputs ==
    \A id \in DOMAIN offersData :
        /\ offersData[id].closingTimelineDays # None
        /\ offersData[id].overallScore # None

\* an offer of the set with the greatest net proceeds
HighestNetProceeds(ids) ==
    CHOOSE id \in ids : \A other \in ids : offersData[other].netProceeds <= offersData[id].netProceeds

\* C27: for a listing with at least two offers, the amount the insight result
\* states as the difference to the next best offer is the highest net proceeds
\* minus the second-highest net proceeds among the offers of the listing.
C27_NextBestDifference ==
    (InsightsAnswered /\ Cardinality(ListingOffers) >= 2)
    => /\ res.status = 200
       /\ res.body # None
       /\ LET best == HighestNetProceeds(ListingOffers)
              second == HighestNetProceeds(ListingOffers \ {best})
          IN  Val(Val(res.body).netProceedsComparison).amount
                 = offersData[best].netProceeds - offersData[second].netProceeds

\* C30: every offer the offer-history operation answers belongs to the listing
\* of the offer asked about.
C30_HistoryWithinListing ==
    (req.op = "GET /api/offers/:id/history" /\ res.status = 200)
    => \A i \in DOMAIN res.list :
          offersData[res.list[i]].listingId = offersData[Val(req.offerId)].listingId

\* every offer the offer-history operation answers is an offer of a listing the
\* caller owns
C30_HistoryOfOwnListings ==
    (req.op = "GET /api/offers/:id/history" /\ res.status = 200)
    => \A i \in DOMAIN res.list :
          listingsData[offersData[res.list[i]].listingId].userId = Val(req.caller)

====
